---- MODULE Spec2Model ----
(***************************************************************************)
(* A model of app.py, the Flask front end over an S3-compatible store:     *)
(* the directory listing routes (index, browse), the file proxy            *)
(* (serve_file) and the thumbnail endpoint (thumb).                        *)
(*                                                                         *)
(* Text (keys, prefixes, names) is a sequence of one-character strings so  *)
(* that slicing, rstrip, split and Python's code-point ordering are        *)
(* computed as the code computes them.                                     *)
(***************************************************************************)
EXTENDS Integers, Sequences, FiniteSets, TLC

VARIABLES env, store, resp, fileReq, remembered

vars == <<env, store, resp, fileReq, remembered>>

(***************************************************************************)
(* Bounds of the model.                                                    *)
(***************************************************************************)
\* objects in the store of a listing run
MaxObjects == 3
\* characters of a requested prefix
MaxPrefixLen == 3
\* objects / common prefixes in a list response of the unconstrained store
MaxRespLen == 2

\* THUMB_TTL's default
DefaultThumbTTL == 3600

None == [none |-> TRUE]
Absent == "absent"
NoResp == [route |-> "none"]

(***************************************************************************)
(* Text.                                                                   *)
(***************************************************************************)
Alphabet == {"/", "a", "b"}

\* ord(c): the code point Python compares by
Ord(c) == CASE c = "/" -> 47 [] c = "a" -> 97 [] c = "b" -> 98

RECURSIVE TextsOfLen(_)
TextsOfLen(n) ==
    IF n = 0 THEN {<<>>}
    ELSE {Append(t, c) : t \in TextsOfLen(n - 1), c \in Alphabet}

TextsUpTo(n) == UNION {TextsOfLen(i) : i \in 0..n}

\* s.endswith("/")
EndsWithSlash(s) == Len(s) > 0 /\ s[Len(s)] = "/"

\* s[n:]
DropFirst(s, n) == IF n >= Len(s) THEN <<>> ELSE SubSeq(s, n + 1, Len(s))

\* s.startswith(p)
StartsWith(s, p) == Len(p) <= Len(s) /\ SubSeq(s, 1, Len(p)) = p

\* s.rstrip("/"): every trailing "/" goes
RECURSIVE RStripSlash(_)
RStripSlash(s) ==
    IF EndsWithSlash(s) THEN RStripSlash(SubSeq(s, 1, Len(s) - 1)) ELSE s

\* s.split("/"): empty segments are kept, "" splits to [""]
RECURSIVE SplitSlash(_)
SplitSlash(s) ==
    IF \E i \in 1..Len(s) : s[i] = "/"
    THEN LET i == CHOOSE j \in 1..Len(s) :
                     s[j] = "/" /\ \A k \in 1..(j - 1) : s[k] # "/"
         IN <<SubSeq(s, 1, i - 1)>> \o SplitSlash(DropFirst(s, i))
    ELSE <<s>>

\* Python's str < str: by code point, a proper prefix first
RECURSIVE TextLess(_, _)
TextLess(s, t) ==
    IF s = <<>> THEN t # <<>>
    ELSE IF t = <<>> THEN FALSE
    ELSE IF s[1] # t[1] THEN Ord(s[1]) < Ord(t[1])
    ELSE TextLess(Tail(s), Tail(t))

(***************************************************************************)
(* Configuration read from the environment.                                *)
(***************************************************************************)
Envs ==
    [config_ok : BOOLEAN,
     public_url : {None, [text |-> "https://cdn.example/"]},
     thumb_ttl : {None, [text |-> "60"]}]

\* get_s3_client: raises RuntimeError when the endpoint or a credential is unset
get_s3_client(e) ==
    IF e.config_ok THEN [ok |-> TRUE] ELSE [ok |-> FALSE, exc |-> "RuntimeError"]

\* get_public_url: None without R2_PUBLIC_URL, else base.rstrip('/') + '/' + key
get_public_url(e, key) ==
    IF e.public_url = None THEN None
    ELSE [base |-> "https://cdn.example", path |-> <<"/">> \o key]

\* get_file_url: "/file/" + key
get_file_url(key) == <<"/", "f", "i", "l", "e", "/">> \o key

\* format_timestamp: strftime for a datetime, str() for anything else
format_timestamp(t) ==
    IF t = None THEN "None" ELSE [strftime |-> "%Y-%m-%d %H:%M:%S", of |-> t]

\* generate_presigned_url: the URL, or None when the client raises
generate_presigned_url(key, fails) ==
    IF key \in fails THEN None ELSE [presigned |-> "get_object", Key |-> key]

(***************************************************************************)
(* The object store.                                                       *)
(***************************************************************************)
SampleKeys ==
    { <<"a">>, <<"b">>, <<"a", "/">>, <<"a", "/", "a">>, <<"a", "/", "b">>,
      <<"b", "/", "a">>, <<"a", "/", "/", "b">>, <<"/", "a">> }

Bodies == {"img1", "img2", "junk"}

BodySize(b) == CASE b = "img1" -> 4096 [] b = "img2" -> 8192 [] b = "junk" -> 7

ContentType(b) == IF b = "junk" THEN "application/octet-stream" ELSE "image/png"

Present(st) == {k \in DOMAIN st : st[k] # Absent}

\* the listing record of one stored object
ObjectRecord(st, k) ==
    [Key |-> k, Size |-> BodySize(st[k]), LastModified |-> [datetime |-> st[k]]]

\* keys in ascending binary order, as the store returns them
RECURSIVE SortTexts(_)
SortTexts(S) ==
    IF S = {} THEN <<>>
    ELSE LET m == CHOOSE x \in S : \A y \in S \ {x} : TextLess(x, y)
         IN <<m>> \o SortTexts(S \ {m})

\* the common prefix a key rolls up to under prefix, with Delimiter "/"
RollUp(prefix, key) ==
    LET rest == DropFirst(key, Len(prefix))
        i == CHOOSE j \in 1..Len(rest) :
                 rest[j] = "/" /\ \A k \in 1..(j - 1) : rest[k] # "/"
    IN prefix \o SubSeq(rest, 1, i)

HasSlash(s) == \E i \in 1..Len(s) : s[i] = "/"

\* list_objects_v2(Bucket, Delimiter="/", Prefix=prefix) on a store: the
\* objects directly under prefix and the common prefixes one level down;
\* an empty collection is left out of the response
DropEmpty(r) ==
    [f \in {g \in DOMAIN r : r[g] # <<>>} |-> r[f]]

list_objects_v2(st, prefix) ==
    LET under == {k \in Present(st) : StartsWith(k, prefix)}
        direct == {k \in under : ~HasSlash(DropFirst(k, Len(prefix)))}
        rolled == {RollUp(prefix, k) : k \in under \ direct}
        keys == SortTexts(direct)
        cps == SortTexts(rolled)
    IN DropEmpty(
         [Contents |-> [i \in 1..Len(keys) |-> ObjectRecord(st, keys[i])],
          CommonPrefixes |-> [i \in 1..Len(cps) |-> [Prefix |-> cps[i]]]])

\* the store as one request sees it: a store with contents, or (kind
\* "response") whatever list response the adapter hands back; list_fault is
\* a failing list call, presign_fails the keys whose presigning raises
StoreWorld(st, list_fault, presign_fails) ==
    [kind |-> "store", st |-> st, list_fault |-> list_fault,
     presign_fails |-> presign_fails]

ResponseWorld(response, presign_fails) ==
    [kind |-> "response", response |-> response, list_fault |-> FALSE,
     presign_fails |-> presign_fails]

\* s3_client.list_objects_v2(**list_kwargs)
CallList(world, list_kwargs) ==
    IF world.list_fault THEN [raised |-> "ClientError"]
    ELSE IF world.kind = "response" THEN world.response
    ELSE list_objects_v2(world.st,
                         IF "Prefix" \in DOMAIN list_kwargs
                         THEN list_kwargs.Prefix ELSE <<>>)

(***************************************************************************)
(* The listing routes.                                                     *)
(***************************************************************************)
\* prefix and not prefix.endswith("/")  =>  prefix + "/"
NormalizePrefix(prefix) ==
    IF prefix # <<>> /\ ~EndsWithSlash(prefix) THEN Append(prefix, "/")
    ELSE prefix

\* a faulty variant: the loop skips nothing
SkipNothing(prefix, key) == FALSE

\* the keys of Contents the loop skips: the prefix itself, folder markers
SkipKey(prefix, key) ==
    (prefix # <<>> /\ key = prefix) \/ EndsWithSlash(key)

\* key[len(prefix):] if prefix else key
RelName(prefix, key) ==
    IF prefix # <<>> THEN DropFirst(key, Len(prefix)) ELSE key

\* index's entry of one object
IndexFileEntry(e, world, prefix, obj) ==
    LET key == obj.Key
        entry == [name |-> RelName(prefix, key), key |-> key, size |-> obj.Size,
                  last_modified |-> format_timestamp(obj.LastModified),
                  is_dir |-> FALSE]
        public_url == get_public_url(e, key)
        presigned == generate_presigned_url(key, world.presign_fails)
        e1 == IF public_url # None
              THEN [public_url |-> public_url] @@ entry ELSE entry
        e2 == IF presigned # None
              THEN [presigned_url |-> presigned] @@ e1 ELSE e1
    IN [file_url |-> get_file_url(key)] @@ e2

\* browse's entry of one object
BrowseFileEntry(prefix, obj) ==
    [name |-> RelName(prefix, obj.Key), key |-> obj.Key, size |-> obj.Size,
     last_modified |-> format_timestamp(obj.LastModified), is_dir |-> FALSE,
     file_url |-> get_file_url(obj.Key)]

\* the entry of one common prefix
DirEntry(prefix, p) ==
    [name |-> RStripSlash(RelName(prefix, p.Prefix)), key |-> p.Prefix,
     is_dir |-> TRUE]

FileEntry(route, e, world, prefix, obj) ==
    IF route = "index" THEN IndexFileEntry(e, world, prefix, obj)
    ELSE BrowseFileEntry(prefix, obj)

\* the two loops: objects first, then common prefixes, in response order
RECURSIVE FileEntries(_, _, _, _, _)
FileEntries(route, e, world, prefix, contents) ==
    IF contents = <<>> THEN <<>>
    ELSE LET obj == Head(contents)
             rest == FileEntries(route, e, world, prefix, Tail(contents))
         IN IF SkipKey(prefix, obj.Key) THEN rest
            ELSE <<FileEntry(route, e, world, prefix, obj)>> \o rest

Discovered(route, e, world, prefix, response) ==
    LET contents == IF "Contents" \in DOMAIN response
                    THEN response.Contents ELSE <<>>
        cps == IF "CommonPrefixes" \in DOMAIN response
               THEN response.CommonPrefixes ELSE <<>>
    IN FileEntries(route, e, world, prefix, contents)
         \o [i \in 1..Len(cps) |-> DirEntry(prefix, cps[i])]

\* a faulty variant: the sort key is the name alone
KeyLessByName(x, y) == TextLess(x.name, y.name)

\* the sort key (not x.get("is_dir", False), x["name"]) and tuple order
KeyLess(x, y) ==
    \/ x.is_dir /\ ~y.is_dir
    \/ x.is_dir = y.is_dir /\ TextLess(x.name, y.name)

\* list.sort is stable: an entry goes before the first one with a larger key
RECURSIVE InsertEntry(_, _)
InsertEntry(sorted, x) ==
    IF sorted = <<>> THEN <<x>>
    ELSE IF KeyLess(x, Head(sorted)) THEN <<x>> \o sorted
    ELSE <<Head(sorted)>> \o InsertEntry(Tail(sorted), x)

RECURSIVE SortFrom(_, _)
SortFrom(sorted, rest) ==
    IF rest = <<>> THEN sorted
    ELSE SortFrom(InsertEntry(sorted, Head(rest)), Tail(rest))

SortEntries(entries) == SortFrom(<<>>, entries)

\* the breadcrumb loop over prefix.rstrip("/").split("/")
RECURSIVE CrumbsFrom(_, _)
CrumbsFrom(acc, segs) ==
    IF segs = <<>> THEN <<>>
    ELSE LET acc1 == acc \o Head(segs) \o <<"/">>
         IN <<[name |-> Head(segs), prefix |-> acc1]>>
              \o CrumbsFrom(acc1, Tail(segs))

Crumbs(prefix) ==
    IF prefix # <<>> THEN CrumbsFrom(<<>>, SplitSlash(RStripSlash(prefix)))
    ELSE <<>>

\* list_kwargs: index passes Prefix only when it is non-empty
ListKwargs(route, prefix) ==
    IF route = "index" /\ prefix = <<>>
    THEN [Bucket |-> "bucket", Delimiter |-> "/"]
    ELSE [Bucket |-> "bucket", Delimiter |-> "/", Prefix |-> prefix]

\* a faulty variant: the except branch aborts, as serve_file's does
ErrorViewAbort(route, arg, exc, list_calls) ==
    [route |-> route, arg |-> arg, status |-> 500,
     context |-> [error |-> exc], list_calls |-> list_calls,
     discovered |-> <<>>]

\* except Exception: the same template with error=str(e), status 200
ErrorView(route, arg, exc, list_calls) ==
    [route |-> route, arg |-> arg, status |-> 200,
     context |-> [error |-> exc], list_calls |-> list_calls,
     discovered |-> <<>>]

\* the body of index (route "index") and of browse (route "browse")
ListingView(route, e, world, arg) ==
    LET client == get_s3_client(e)
        prefix == NormalizePrefix(arg)
        response == CallList(world, ListKwargs(route, prefix))
        found == Discovered(route, e, world, prefix, response)
    IN IF ~client.ok THEN ErrorView(route, arg, client.exc, 0)
       ELSE IF "raised" \in DOMAIN response
       THEN ErrorView(route, arg, response.raised, 1)
       ELSE [route |-> route, arg |-> arg, status |-> 200,
             context |-> [entries |-> SortEntries(found),
                          current_prefix |-> prefix,
                          crumbs |-> Crumbs(prefix)],
             list_calls |-> 1, discovered |-> found]

index(e, world, arg) == ListingView("index", e, world, arg)

browse(e, world, arg) == ListingView("browse", e, world, arg)

\* what "/<path:prefix_path>" hands to browse: not empty, no leading "/",
\* and no "//" (the router merges consecutive slashes before matching)
RoutablePaths ==
    {p \in TextsUpTo(MaxPrefixLen) :
        /\ p # <<>>
        /\ p[1] # "/"
        /\ \A i \in 1..(Len(p) - 1) : ~(p[i] = "/" /\ p[i + 1] = "/")}

\* the keys the response of a store can hold for a request
ContentKeys(st, prefix) ==
    LET r == list_objects_v2(st, prefix)
    IN IF "Contents" \in DOMAIN r
       THEN {r.Contents[i].Key : i \in 1..Len(r.Contents)} ELSE {}

(***************************************************************************)
(* Listing requests against a store.                                       *)
(***************************************************************************)
Idle == resp = NoResp /\ fileReq = None

\* the response, with what the store did to the request
Observed(r, list_fault) == [list_fault |-> list_fault] @@ r

IndexReq ==
    /\ Idle
    /\ \E arg \in TextsUpTo(MaxPrefixLen), list_fault \in BOOLEAN :
         \E fails \in SUBSET ContentKeys(store, NormalizePrefix(arg)) :
            /\ list_fault => fails = {}
            /\ resp' = Observed(
                 index(env, StoreWorld(store, list_fault, fails), arg),
                 list_fault)
    /\ UNCHANGED <<env, store, fileReq, remembered>>

BrowseReq ==
    /\ Idle
    /\ \E arg \in RoutablePaths, list_fault \in BOOLEAN :
         resp' = Observed(
             browse(env, StoreWorld(store, list_fault, {}), arg), list_fault)
    /\ UNCHANGED <<env, store, fileReq, remembered>>

\* the response leaves; the server keeps nothing of it. A client may keep
\* the validator of a thumb response to send it back later
Deliver ==
    /\ resp # NoResp
    /\ resp' = NoResp
    /\ IF resp.route = "thumb"
       THEN \E keep \in BOOLEAN :
               remembered' =
                   IF keep
                   THEN [key |-> resp.key, etag |-> resp.headers["ETag"],
                         status |-> resp.status, body |-> resp.body,
                         stored_then |-> store[resp.key]]
                   ELSE remembered
       ELSE UNCHANGED remembered
    /\ UNCHANGED <<env, store, fileReq>>

ListStores ==
    {st \in [SampleKeys -> {Absent, "img1"}] :
        Cardinality(Present(st)) <= MaxObjects}

InitList ==
    /\ env \in {e \in Envs : e.thumb_ttl = None}
    /\ store \in ListStores
    /\ resp = NoResp
    /\ fileReq = None
    /\ remembered = None

NextList == IndexReq \/ BrowseReq \/ Deliver

SpecList == InitList /\ [][NextList]_vars

(***************************************************************************)
(* Listing requests against a store that may answer anything: Contents and *)
(* CommonPrefixes are any short sequences, repeats included; a common      *)
(* prefix still ends with the delimiter it was cut at.                     *)
(***************************************************************************)
RECURSIVE SeqsOfLen(_, _)
SeqsOfLen(S, n) ==
    IF n = 0 THEN {<<>>}
    ELSE {Append(t, x) : t \in SeqsOfLen(S, n - 1), x \in S}

SeqsUpTo(S, n) == UNION {SeqsOfLen(S, i) : i \in 0..n}

AnyObjects ==
    {[Key |-> k, Size |-> BodySize("img1"),
      LastModified |-> [datetime |-> "img1"]] :
        k \in {<<"a">>, <<"b">>, <<"a", "/", "b">>, <<"b", "/", "b">>}}

AnyCommonPrefixes ==
    {[Prefix |-> p] : p \in {<<"a", "/">>, <<"b", "/">>, <<"a", "/", "/">>}}

AnyResponses ==
    {DropEmpty([Contents |-> c, CommonPrefixes |-> p]) :
        c \in SeqsUpTo(AnyObjects, MaxRespLen),
        p \in SeqsUpTo(AnyCommonPrefixes, MaxRespLen)}

AnyArgs == {<<>>, <<"a">>, <<"a", "/">>}

IndexAny ==
    /\ Idle
    /\ \E arg \in AnyArgs, response \in AnyResponses :
         resp' = Observed(index(env, ResponseWorld(response, {}), arg), FALSE)
    /\ UNCHANGED <<env, store, fileReq, remembered>>

BrowseAny ==
    /\ Idle
    /\ \E arg \in AnyArgs \cap RoutablePaths, response \in AnyResponses :
         resp' = Observed(browse(env, ResponseWorld(response, {}), arg), FALSE)
    /\ UNCHANGED <<env, store, fileReq, remembered>>

InitAny ==
    /\ env \in {e \in Envs : e.thumb_ttl = None /\ e.config_ok}
    /\ store = [k \in SampleKeys |-> Absent]
    /\ resp = NoResp
    /\ fileReq = None
    /\ remembered = None

NextAny == IndexAny \/ BrowseAny \/ Deliver

SpecAnyStore == InitAny /\ [][NextAny]_vars

(***************************************************************************)
(* The file proxy and the thumbnail endpoint.                              *)
(***************************************************************************)
\* the keys requested from /file/ and /thumb/
ReqKeys == {<<"a">>, <<"a", "/", "b">>}

\* what a store call can do besides answering: raise a ClientError that is
\* not "not found", or raise something that is no ClientError (no network)
StoreFaults == {"none", "client_error", "other_exception"}

\* head_object / get_object of a key: the object, or botocore's error
StoreRead(st, key, fault, missing_code) ==
    IF fault = "client_error" THEN [raised |-> "ClientError", code |-> "403"]
    ELSE IF fault = "other_exception"
    THEN [raised |-> "EndpointConnectionError"]
    ELSE IF st[key] = Absent
    THEN [raised |-> "ClientError", code |-> missing_code]
    ELSE [ContentType |-> ContentType(st[key]),
          ContentLength |-> BodySize(st[key]), Body |-> st[key]]

head_object(st, key, fault) == StoreRead(st, key, fault, "404")

get_object(st, key, fault) == StoreRead(st, key, fault, "NoSuchKey")

Raised(r) == "raised" \in DOMAIN r

\* abort(code): raises an HTTPException, which is an Exception
abort(code) == [raised |-> "HTTPException", code |-> code]

\* serve_file's  except ClientError  around the probe
ProbeExcept(err) ==
    IF err.code = "404" THEN abort(404) ELSE abort(500)

\* serve_file's outer  except Exception: abort(500)  catches whatever was
\* raised inside the try, the probe handler's own abort(404) included
OuterExcept(exc) == abort(500)

FileResponse(key, probe, fetch, status, headers, body) ==
    [route |-> "file", key |-> key, probe |-> probe, fetch |-> fetch,
     status |-> status, headers |-> headers, body |-> body]

\* how the probe ended, for the log
ProbeOutcome(head) ==
    IF ~Raised(head) THEN "ok"
    ELSE IF head.raised # "ClientError" THEN "exception"
    ELSE IF head.code = "404" THEN "not_found" ELSE "error"

\* serve_file up to the probe: the response when it ends there
ProbeResponse(e, key, head) ==
    LET client == get_s3_client(e)
        raised == IF ~client.ok THEN [raised |-> client.exc]
                  ELSE IF head.raised = "ClientError" THEN ProbeExcept(head)
                  ELSE head
    IN FileResponse(key, IF client.ok THEN ProbeOutcome(head) ELSE "no_client",
                    "none", OuterExcept(raised).code, <<>>, None)

\* a faulty variant: a key gone at the fetch is answered like a key gone at the probe
FetchResponseNotFound(key, got) ==
    IF Raised(got)
    THEN [route |-> "file", key |-> key, probe |-> "ok",
          fetch |-> IF got.raised = "ClientError" /\ got.code = "NoSuchKey"
                    THEN "not_found" ELSE "error",
          status |-> IF got.raised = "ClientError" /\ got.code = "NoSuchKey"
                     THEN 404 ELSE 500,
          headers |-> <<>>, body |-> None]
    ELSE [route |-> "file", key |-> key, probe |-> "ok", fetch |-> "ok",
          status |-> 200,
          headers |-> [ContentType |-> got.ContentType,
                       ContentLength |-> got.ContentLength],
          body |-> got.Body]

\* serve_file from get_object on: the streamed object, or the outer except
FetchResponse(key, got) ==
    IF Raised(got)
    THEN FileResponse(key, "ok",
                      IF got.raised = "ClientError" /\ got.code = "NoSuchKey"
                      THEN "not_found" ELSE "error",
                      OuterExcept(got).code, <<>>, None)
    ELSE FileResponse(key, "ok", "ok", 200,
                      [ContentType |-> got.ContentType,
                       ContentLength |-> got.ContentLength],
                      got.Body)

\* int(os.getenv("THUMB_TTL_SECONDS", "3600"))
IntOf(text) == CASE text = "60" -> 60 [] text = "3600" -> 3600

THUMB_TTL(e) ==
    IF e.thumb_ttl = None THEN DefaultThumbTTL ELSE IntOf(e.thumb_ttl.text)

\* hashlib.md5(file_path.encode("utf-8")).hexdigest()
Md5Hex(key) ==
    CASE key = <<"a">> -> "0cc175b9c0f1b6a831c399e269772661"
      [] key = <<"a", "/", "b">> -> "a7e86136543b019d72468ceebf71fb8e"

\* a header value  W/"<opaque>"  or  "<opaque>"
EntityTag(weak, opaque) == [weak |-> weak, opaque |-> opaque]

cache_headers(e, key) ==
    ("Cache-Control" :> [directive |-> "public", max_age |-> THUMB_TTL(e)])
      @@ ("ETag" :> EntityTag(TRUE, Md5Hex(key)))

\* a faulty variant: the validator is compared as a strong one, without its W/
ConditionalHitStrong(inm, headers) ==
    inm # None /\ inm = [weak |-> FALSE, opaque |-> headers["ETag"].opaque]

\* etag and etag == cache_headers["ETag"]
ConditionalHit(inm, headers) == inm # None /\ inm = headers["ETag"]

\* a faulty variant: setdefault instead of update: what is there stays
HeadersSetDefault(headers, new) == headers @@ new

\* headers.update(new): new replaces what is there
HeadersUpdate(headers, new) == new @@ headers

\* send_file(".../thumb_placeholder.svg", mimetype="image/svg+xml")
send_file_placeholder ==
    [status |-> 200, body |-> [file |-> "thumb_placeholder.svg"],
     headers |-> ("Content-Type" :> "image/svg+xml")
                   @@ ("Cache-Control" :> [directive |-> "no-cache"])
                   @@ ("ETag" :> EntityTag(FALSE, "thumb_placeholder.svg"))]

\* a faulty variant: the except branches abort, as serve_file's does
PlaceholderAbort(headers) ==
    [status |-> 500, body |-> None, headers |-> headers]

\* the three except branches of thumb: the placeholder with cache_headers
Placeholder(headers) ==
    [status |-> 200, body |-> send_file_placeholder.body,
     headers |-> HeadersUpdate(send_file_placeholder.headers, headers)]

\* Image.open, convert, thumbnail((320, 320)), save as JPEG: raises on bytes
\* that are no image, or when the re-encoding fails
MakeThumbnail(data, encode_fault) ==
    IF data = "junk" \/ encode_fault THEN [raised |-> "UnidentifiedImageError"]
    ELSE [jpeg_of |-> data, within |-> 320]

\* Response(thumb_bytes, mimetype="image/jpeg") with cache_headers
ImageResponse(thumb_bytes, headers) ==
    [status |-> 200, body |-> thumb_bytes,
     headers |-> HeadersUpdate("Content-Type" :> "image/jpeg", headers)]

\* Response(status=304, headers=cache_headers)
NotModified(headers) == [status |-> 304, body |-> None, headers |-> headers]

\* thumb, whole: the response, with the store calls it made and the step
\* that failed, as logged
thumb(e, st, key, inm, fault, encode_fault) ==
    LET headers == cache_headers(e, key)
        client == get_s3_client(e)
        obj == get_object(st, key, fault)
        made == IF Raised(obj) THEN obj ELSE MakeThumbnail(obj.Body, encode_fault)
        Log(r, built, calls, failed) ==
            [route |-> "thumb", key |-> key, inm |-> inm, status |-> r.status,
             body |-> r.body, headers |-> r.headers, client_built |-> built,
             store_calls |-> calls, failed |-> failed]
    IN IF ConditionalHit(inm, headers)
       THEN Log(NotModified(headers), FALSE, <<>>, "none")
       ELSE IF ~client.ok
       THEN Log(Placeholder(headers), FALSE, <<>>, "client")
       ELSE IF Raised(obj)
       THEN Log(Placeholder(headers), TRUE, <<"get_object">>, "fetch")
       ELSE IF Raised(made)
       THEN Log(Placeholder(headers), TRUE, <<"get_object">>, "decode")
       ELSE Log(ImageResponse(made, headers), TRUE, <<"get_object">>, "none")

\* the If-None-Match values a client sends: none, a validator thumb hands out
\* (for this key or another), the same opaque tag as a strong validator
Validators ==
    {None} \cup {EntityTag(w, Md5Hex(k)) : w \in BOOLEAN, k \in ReqKeys}

\* GET /file/{key}, first half: the client and the head probe. A failed probe
\* ends the request; a good one leaves the request waiting for its fetch
FileProbe ==
    /\ Idle
    /\ \E key \in ReqKeys, fault \in StoreFaults :
         LET head == head_object(store, key, fault)
         IN IF env.config_ok /\ ~Raised(head)
            THEN /\ fileReq' = [key |-> key, head |-> head]
                 /\ resp' = resp
            ELSE /\ resp' = ProbeResponse(env, key, head)
                 /\ fileReq' = fileReq
    /\ UNCHANGED <<env, store, remembered>>

\* GET /file/{key}, second half: get_object and the streamed response
FileFetch ==
    /\ fileReq # None
    /\ \E fault \in StoreFaults :
         resp' = FetchResponse(fileReq.key,
                               get_object(store, fileReq.key, fault))
    /\ fileReq' = None
    /\ UNCHANGED <<env, store, remembered>>

\* GET /thumb/{key}
ThumbReq ==
    /\ Idle
    /\ \E key \in ReqKeys, inm \in Validators, fault \in StoreFaults,
          encode_fault \in BOOLEAN :
         resp' = [stored |-> store[key], fault |-> fault,
                  encode_fault |-> encode_fault]
                   @@ thumb(env, store, key, inm, fault, encode_fault)
    /\ UNCHANGED <<env, store, fileReq, remembered>>

\* someone else writes or deletes an object, at any moment
StorePut ==
    /\ \E key \in ReqKeys, b \in Bodies :
         /\ store[key] # b
         /\ store' = [store EXCEPT ![key] = b]
    /\ UNCHANGED <<env, resp, fileReq, remembered>>

StoreDelete ==
    /\ \E key \in ReqKeys :
         /\ store[key] # Absent
         /\ store' = [store EXCEPT ![key] = Absent]
    /\ UNCHANGED <<env, resp, fileReq, remembered>>

Init ==
    /\ env \in {e \in Envs : e.public_url = None}
    /\ store \in {st \in [SampleKeys -> Bodies \cup {Absent}] :
                     Present(st) \subseteq ReqKeys}
    /\ resp = NoResp
    /\ fileReq = None
    /\ remembered = None

Next ==
    FileProbe \/ FileFetch \/ ThumbReq \/ Deliver \/ StorePut \/ StoreDelete

Spec == Init /\ [][Next]_vars

(***************************************************************************)
(* Properties of the file proxy and the thumbnail endpoint.                *)
(***************************************************************************)
\* C1 (as claimed): a file request whose probe reports "404" ends with status
\* 404, and one whose probe fails with another store error ends with 500
C1_ProbeStatus ==
    resp.route = "file" =>
        /\ resp.probe = "not_found" => resp.status = 404
        /\ resp.probe = "error" => resp.status = 500

IsThumb == resp.route = "thumb"

ContentTypeOf(r) ==
    IF "Content-Type" \in DOMAIN r.headers THEN r.headers["Content-Type"]
    ELSE "none"

CachedUnchanged == resp.status = 304 /\ resp.body = None

ImageOutcome ==
    /\ resp.status = 200
    /\ "jpeg_of" \in DOMAIN resp.body
    /\ ContentTypeOf(resp) = "image/jpeg"

PlaceholderOutcome ==
    /\ resp.status = 200
    /\ resp.body = [file |-> "thumb_placeholder.svg"]
    /\ ContentTypeOf(resp) = "image/svg+xml"

\* a step of the pipeline fails for this request: no client, the fetch
\* raises (the object is absent, the store errs), the bytes are no image, or
\* the re-encoding raises
ThumbStepFails ==
    \/ ~env.config_ok
    \/ resp.stored = Absent
    \/ resp.fault # "none"
    \/ resp.stored = "junk"
    \/ resp.encode_fault

\* C2: a thumb request ends as 304 CachedUnchanged, 200 Image or 200
\* Placeholder and nothing else; when it is not answered from the validator
\* and a step fails, it ends as Placeholder, and as Image when none does
C2_ThumbOutcomes ==
    IsThumb =>
        /\ CachedUnchanged \/ ImageOutcome \/ PlaceholderOutcome
        /\ ~(CachedUnchanged /\ ImageOutcome)
        /\ ~(CachedUnchanged /\ PlaceholderOutcome)
        /\ ~(ImageOutcome /\ PlaceholderOutcome)
        /\ (~CachedUnchanged /\ ThumbStepFails) => PlaceholderOutcome
        /\ (~CachedUnchanged /\ ~ThumbStepFails) => ImageOutcome

\* C2 witness: the stored bytes are no image and the answer is the placeholder
C2_Witness ==
    /\ IsThumb
    /\ env.config_ok
    /\ resp.stored = "junk"
    /\ resp.fault = "none"
    /\ PlaceholderOutcome

\* the request carries the validator an earlier thumb response for the same
\* key handed out
Revalidates ==
    /\ IsThumb
    /\ remembered # None
    /\ remembered.key = resp.key
    /\ resp.inm = remembered.etag

\* C3: a thumb request that sends back the ETag of an earlier thumb response
\* for its key gets 304 without a body, and no client was built and no store
\* call made for it
C3_RevalidationShortCircuits ==
    Revalidates =>
        /\ resp.status = 304
        /\ resp.body = None
        /\ ~resp.client_built
        /\ resp.store_calls = <<>>

\* C3 witness: a revalidation answered 304 although the object is not what
\* it was when the validator was handed out (with a body, status 200)
C3_Witness ==
    /\ Revalidates
    /\ remembered.status = 200
    /\ resp.stored # remembered.stored_then
    /\ resp.status = 304

\* C8: every thumb response carries Cache-Control "public, max-age=<ttl>" of
\* the configured ttl and the weak ETag of its key's digest, which is the
\* ETag any earlier response for the key carried
C8_SameCacheHeaders ==
    IsThumb =>
        /\ resp.headers["Cache-Control"] =
              [directive |-> "public",
               max_age |-> IF env.thumb_ttl = None THEN DefaultThumbTTL
                           ELSE 60]
        /\ resp.headers["ETag"] = [weak |-> TRUE, opaque |-> Md5Hex(resp.key)]
        /\ (remembered # None /\ remembered.key = resp.key) =>
              resp.headers["ETag"] = remembered.etag

\* C8 witness: a placeholder for a key whose earlier response was an image
C8_Witness ==
    /\ IsThumb
    /\ PlaceholderOutcome
    /\ remembered # None
    /\ remembered.key = resp.key
    /\ "jpeg_of" \in DOMAIN remembered.body
    /\ resp.headers["ETag"] = remembered.etag

\* C10: a file request whose probe found the object and whose fetch found it
\* gone ends with status 500 and no body
C10_DeletedBetween ==
    (resp.route = "file" /\ resp.probe = "ok" /\ resp.fetch = "not_found") =>
        /\ resp.status = 500
        /\ resp.body = None

\* C10 witness: the object went between the probe and the fetch
C10_Witness ==
    /\ resp.route = "file"
    /\ resp.probe = "ok"
    /\ resp.fetch = "not_found"
    /\ store[resp.key] = Absent
    /\ resp.status = 500

(***************************************************************************)
(* Properties of the listing routes.                                       *)
(***************************************************************************)
IsListing == resp.route \in {"index", "browse"}

ListedOK == IsListing /\ "entries" \in DOMAIN resp.context

\* the prefix as requested, with one "/" appended if it had none
Requested(arg) == IF EndsWithSlash(arg) THEN arg ELSE arg \o <<"/">>

\* C4 (as claimed): what index lists for a prefix, browse lists for the same
\* prefix over the same store: the same entries with the same fields in the
\* same order, and the same breadcrumbs
C4_SameListingBothRoutes ==
    (ListedOK /\ resp.route = "index" /\ resp.arg \in RoutablePaths) =>
        LET b == browse(env, StoreWorld(store, FALSE, {}), resp.arg)
        IN /\ b.context.entries = resp.context.entries
           /\ b.context.crumbs = resp.context.crumbs

\* C5: in every successful listing the directories come before the files,
\* the names ascend within the directories and within the files, and the
\* entries of one sort key stand in the order they were discovered in
C5_SortedStable ==
    ListedOK =>
        LET es == resp.context.entries
            found == resp.discovered
        IN /\ Len(es) = Len(found)
           /\ \A i, j \in 1..Len(es) :
                i < j =>
                  /\ ~(es[j].is_dir /\ ~es[i].is_dir)
                  /\ (es[i].is_dir = es[j].is_dir =>
                        ~TextLess(es[j].name, es[i].name))
           /\ \A i \in 1..Len(found) :
                LET SameKey(x) == /\ x.is_dir = found[i].is_dir
                                  /\ x.name = found[i].name
                IN SelectSeq(es, SameKey) = SelectSeq(found, SameKey)

\* C5 witness: a listing that found a file before a directory, names out of
\* order, and two different entries of one sort key
C5_Witness ==
    /\ ListedOK
    /\ LET found == resp.discovered
       IN /\ \E i, j \in 1..Len(found) :
                i < j /\ ~found[i].is_dir /\ found[j].is_dir
          /\ \E i, j \in 1..Len(found) :
                /\ i < j
                /\ found[i].is_dir = found[j].is_dir
                /\ TextLess(found[j].name, found[i].name)
          /\ \E i, j \in 1..Len(found) :
                /\ i < j
                /\ found[i].is_dir = found[j].is_dir
                /\ found[i].name = found[j].name
                /\ found[i].key # found[j].key

\* C6: a directory entry's key ends with "/" and the entry has a name, a key
\* and is_dir and nothing else; a file entry's key does not end with "/"
C6_EntryShape ==
    ListedOK =>
        \A i \in 1..Len(resp.context.entries) :
            LET x == resp.context.entries[i]
            IN IF x.is_dir
               THEN EndsWithSlash(x.key) /\ DOMAIN x = {"name", "key", "is_dir"}
               ELSE ~EndsWithSlash(x.key)

\* C6 witness: a listing of "a/" over a store holding the marker "a/", with a
\* file and a directory listed
C6_Witness ==
    /\ ListedOK
    /\ resp.context.current_prefix = <<"a", "/">>
    /\ store[<<"a", "/">>] # Absent
    /\ \E i \in 1..Len(resp.context.entries) : resp.context.entries[i].is_dir
    /\ \E i \in 1..Len(resp.context.entries) : ~resp.context.entries[i].is_dir

\* C7 (as claimed): the last breadcrumb's prefix is the requested prefix with
\* one "/" appended if it had none; the empty prefix has no breadcrumbs
C7_LastCrumbIsPrefix ==
    ListedOK =>
        LET crumbs == resp.context.crumbs
        IN IF resp.arg = <<>> THEN crumbs = <<>>
           ELSE /\ crumbs # <<>>
                /\ crumbs[Len(crumbs)].prefix = Requested(resp.arg)

\* C9: a listing request ends with status 200; without a client, or when the
\* list call raises, the view carries the error and no entries, and the list
\* call was made at most once
C9_ListingAlways200 ==
    IsListing =>
        /\ resp.status = 200
        /\ resp.list_calls <= 1
        /\ (~env.config_ok \/ resp.list_fault) =>
              /\ DOMAIN resp.context = {"error"}
              /\ resp.list_calls = (IF env.config_ok THEN 1 ELSE 0)
        /\ (env.config_ok /\ ~resp.list_fault) =>
              DOMAIN resp.context = {"entries", "current_prefix", "crumbs"}

\* C9 witness: the list call of a browse request raised
C9_Witness ==
    /\ resp.route = "browse"
    /\ env.config_ok
    /\ resp.list_fault
    /\ resp.status = 200
    /\ "error" \in DOMAIN resp.context

====
